---- MODULE Spec2Model ----
(***************************************************************************)
(* Model of optionstat.py: class Leg (get_profit) and class Optionstat     *)
(* (add_trade, _get_price_range, stat).                                    *)
(*                                                                         *)
(* Python floats are modelled as exact rationals [n, d] in lowest terms    *)
(* with d > 0: every sum, product and quotient of the code is computed     *)
(* without rounding.  The code's IEEE doubles agree with these values      *)
(* whenever the value is a binary fraction, and are the nearest double to  *)
(* them otherwise.                                                         *)
(* A Python exception is modelled as an outcome record naming the          *)
(* exception class and the source line that raises it.                     *)
(***************************************************************************)
EXTENDS Integers, Sequences, FiniteSets, TLC

\* ------------------------------------------------------------------ bounds
MaxLegs == 2
TailProbe == 6

\* ------------------------------------------------- inputs of the operations
Strikes == {100, 105}
Premiums == {[n |-> 1, d |-> 4], [n |-> 2, d |-> 1]}
Positions == {-1, 0, 1}
OptionTypes == {"Call", "Put", "Straddle"}
DEFAULT_CONTRACT_SIZE == 100
ContractSizes == {DEFAULT_CONTRACT_SIZE}

\* option_trades  self._option_trades: the legs, in insertion order
\* strike_prices  self._strike_prices: the recorded strikes
\* contract_size  self._contract_size
\* last_stat      what stat() returned or raised, if called since the last
\*                add_trade
\* last_range     what _get_price_range() returned or raised, if called since
\*                the last add_trade
VARIABLES option_trades, strike_prices, contract_size, last_stat, last_range

vars == <<option_trades, strike_prices, contract_size, last_stat, last_range>>

\* ------------------------------------------------------ float arithmetic
Abs(x) == IF x < 0 THEN -x ELSE x

RECURSIVE GCD(_, _)
GCD(a, b) == IF b = 0 THEN a ELSE GCD(b, a % b)

\* the value n / d (d # 0) in lowest terms with a positive denominator
Rat(n, d) ==
    IF d = 1 THEN [n |-> n, d |-> 1]
    ELSE LET g == GCD(Abs(n), Abs(d))
             s == IF d < 0 THEN -1 ELSE 1
         IN [n |-> (s * n) \div g, d |-> (s * d) \div g]

Int2Rat(i) == [n |-> i, d |-> 1]
Zero == Int2Rat(0)

RatAdd(a, b) == Rat(a.n * b.d + b.n * a.d, a.d * b.d)
RatSub(a, b) == Rat(a.n * b.d - b.n * a.d, a.d * b.d)
RatMul(a, b) == Rat(a.n * b.n, a.d * b.d)
RatNeg(a) == [n |-> -a.n, d |-> a.d]
RatAbs(a) == [n |-> Abs(a.n), d |-> a.d]
\* a / b for b # 0; Python raises ZeroDivisionError for b = 0, which every
\* caller tests before dividing
RatDiv(a, b) == Rat(a.n * b.d, a.d * b.n)
RatLt(a, b) == a.n * b.d < b.n * a.d
RatMax(a, b) == IF RatLt(a, b) THEN b ELSE a

\* a plausible slip: the bound rounded up instead of truncated
IntCeil(a) == -((-a.n) \div a.d)

\* int(x): truncation toward zero
IntTrunc(a) == IF a.n >= 0 THEN a.n \div a.d ELSE -((-a.n) \div a.d)

PRICE_RANGE_PCT == [n |-> 1, d |-> 10]

\* ------------------------------------------------------------ outcomes
NoRaise == [exc |-> "", line |-> 0]
Raise(exc, line) == [exc |-> exc, line |-> line]

\* ------------------------------------------------------------------ Leg
Leg(strike, premium, position, option_type, size) ==
    [strike |-> strike, premium |-> premium, position |-> position,
     option_type |-> option_type, contract_size |-> size]

\* get_profit raises exactly when it divides by a zero position
GetProfitRaises(leg) == leg.position = 0

\* get_profit(underlying) for a leg with position # 0
GetProfit(leg, underlying) ==
    LET price == IF leg.option_type = "Call"
                   THEN RatSub(underlying, Int2Rat(leg.strike))
                 ELSE IF leg.option_type = "Put"
                   THEN RatSub(Int2Rat(leg.strike), underlying)
                 ELSE Zero
        profit == RatDiv(RatMul(RatSub(RatMax(price, Zero), leg.premium),
                                Int2Rat(Abs(leg.position))),
                         Int2Rat(leg.position))
    IN RatMul(RatMul(profit, Int2Rat(Abs(leg.position))), Int2Rat(leg.contract_size))

\* sum([trade.get_profit(underlying) for trade in self._option_trades])
RECURSIVE SumProfitFrom(_, _, _)
SumProfitFrom(trades, underlying, i) ==
    IF i > Len(trades) THEN Zero
    ELSE RatAdd(GetProfit(trades[i], underlying), SumProfitFrom(trades, underlying, i + 1))

TotalProfit(trades, underlying) == SumProfitFrom(trades, underlying, 1)

\* --------------------------------------------------------------- Optionstat
\* a plausible slip: the sort left out
SortStrikesOmitted(strikes) == strikes

\* self._strike_prices.sort()
SortStrikes(strikes) == SortSeq(strikes, LAMBDA a, b : a < b)

\* a plausible slip: the anchor list built in place, on the list of strikes
\* itself (underlying_prices aliasing self._strike_prices)
StrikesAfterStatAliased(strikes) ==
    IF Len(strikes) = 0 THEN strikes
    ELSE LET sorted == SortSeq(strikes, LAMBDA a, b : a < b)
         IN <<0>> \o sorted \o <<sorted[Len(sorted)] + 1>>

\* the list self._strike_prices that stat() leaves behind
StrikesAfterStat(strikes) == SortStrikes(strikes)

\* a plausible slip: the anchor at price 0 left out
UnderlyingPricesNoZero(sorted) ==
    IF Len(sorted) = 0
      THEN [raised |-> [exc |-> "IndexError", line |-> 122], value |-> <<>>]
      ELSE [raised |-> [exc |-> "", line |-> 0],
            value |-> sorted \o <<sorted[Len(sorted)] + 1>>]

\* a plausible slip: an empty list of strikes given the anchors of a strike 0
UnderlyingPricesEmptyDefault(sorted) ==
    [raised |-> [exc |-> "", line |-> 0],
     value |-> IF Len(sorted) = 0 THEN <<0, 1>>
               ELSE <<0>> \o sorted \o <<sorted[Len(sorted)] + 1>>]

\* [0] + self._strike_prices + [self._strike_prices[-1] + 1]
UnderlyingPrices(sorted) ==
    IF Len(sorted) = 0
      THEN [raised |-> Raise("IndexError", 122), value |-> <<>>]
      ELSE [raised |-> NoRaise,
            value |-> <<0>> \o sorted \o <<sorted[Len(sorted)] + 1>>]

\* the list comprehension of lines 123-124
Prices(trades, underlying_prices) ==
    IF Len(underlying_prices) > 0 /\ \E t \in 1..Len(trades) : GetProfitRaises(trades[t])
      THEN [raised |-> Raise("ZeroDivisionError", 41), value |-> <<>>]
      ELSE [raised |-> NoRaise,
            value |-> [i \in 1..Len(underlying_prices) |->
                         TotalProfit(trades, Int2Rat(underlying_prices[i]))]]

\* max(prices), min(prices)
RECURSIVE MaxFrom(_, _)
MaxFrom(prices, i) ==
    IF i = Len(prices) THEN prices[i]
    ELSE LET rest == MaxFrom(prices, i + 1)
         IN IF RatLt(prices[i], rest) THEN rest ELSE prices[i]

RECURSIVE MinFrom(_, _)
MinFrom(prices, i) ==
    IF i = Len(prices) THEN prices[i]
    ELSE LET rest == MinFrom(prices, i + 1)
         IN IF RatLt(rest, prices[i]) THEN rest ELSE prices[i]

\* float('inf'), float('-inf') and finite floats
PosInf == [inf |-> 1, val |-> Zero]
NegInf == [inf |-> -1, val |-> Zero]
Finite(x) == [inf |-> 0, val |-> x]

\* lines 128-131
MaxProfit(prices) ==
    IF RatLt(prices[Len(prices) - 1], prices[Len(prices)])
      THEN PosInf
      ELSE Finite(MaxFrom(prices, 1))

\* lines 134-137
MaxLoss(prices) ==
    IF RatLt(prices[Len(prices)], prices[Len(prices) - 1])
      THEN NegInf
      ELSE Finite(MinFrom(prices, 1))

\* a plausible slip: the intercept taken at the other end of the segment
RootInterceptAtPrevious(prices, underlying_prices, i) ==
    LET gradient == RatDiv(RatSub(prices[i], prices[i - 1]),
                           Int2Rat(underlying_prices[i] - underlying_prices[i - 1]))
        intercept == RatSub(prices[i], RatMul(gradient, Int2Rat(underlying_prices[i - 1])))
    IN RatDiv(RatNeg(intercept), gradient)

\* lines 148-151: the root of the line through the anchors i-1 and i
\* (1-based here), for prices[i] # prices[i-1] and distinct anchor prices
Root(prices, underlying_prices, i) ==
    LET gradient == RatDiv(RatSub(prices[i], prices[i - 1]),
                           Int2Rat(underlying_prices[i] - underlying_prices[i - 1]))
        intercept == RatSub(prices[i], RatMul(gradient, Int2Rat(underlying_prices[i])))
    IN RatDiv(RatNeg(intercept), gradient)

\* lines 140-152: the loop `for i in range(1, len(prices))`, from index i on
\* (1-based: i runs over 2..Len(prices)), break_even being the roots so far
RECURSIVE BreakEvenFrom(_, _, _, _)
BreakEvenFrom(prices, underlying_prices, i, break_even) ==
    IF i > Len(prices)
      THEN [raised |-> NoRaise, value |-> break_even]
    ELSE IF prices[i] = prices[i - 1]
      THEN BreakEvenFrom(prices, underlying_prices, i + 1, break_even)
    ELSE IF prices[i] = Zero \/ prices[i - 1] = Zero
      THEN [raised |-> Raise("ZeroDivisionError", 144), value |-> <<>>]
    ELSE IF RatDiv(prices[i], RatAbs(prices[i]))
              = RatDiv(prices[i - 1], RatAbs(prices[i - 1]))
      THEN BreakEvenFrom(prices, underlying_prices, i + 1, break_even)
    ELSE IF underlying_prices[i] = underlying_prices[i - 1]
      THEN [raised |-> Raise("ZeroDivisionError", 148), value |-> <<>>]
    ELSE BreakEvenFrom(prices, underlying_prices, i + 1,
                       Append(break_even, Root(prices, underlying_prices, i)))

BreakEven(prices, underlying_prices) ==
    BreakEvenFrom(prices, underlying_prices, 2, <<>>)

NoStat == [legs |-> 0, max_profit |-> Finite(Zero), max_loss |-> Finite(Zero),
           break_even |-> <<>>]

\* stat() from the anchor prices on (lines 123-153); legs is
\* len(self._strike_prices)
StatFrom(trades, underlying_prices, legs) ==
    LET prices == Prices(trades, underlying_prices)
    IN IF prices.raised # NoRaise
         THEN [raised |-> prices.raised, value |-> NoStat]
         ELSE LET break_even == BreakEven(prices.value, underlying_prices)
              IN IF break_even.raised # NoRaise
                   THEN [raised |-> break_even.raised, value |-> NoStat]
                   ELSE [raised |-> NoRaise,
                         value |-> [legs |-> legs,
                                    max_profit |-> MaxProfit(prices.value),
                                    max_loss |-> MaxLoss(prices.value),
                                    break_even |-> break_even.value]]

\* what stat() returns or raises on the lists trades and strikes
Stat(trades, strikes) ==
    LET underlying_prices == UnderlyingPrices(SortStrikes(strikes))
    IN IF underlying_prices.raised # NoRaise
         THEN [raised |-> underlying_prices.raised, value |-> NoStat]
         ELSE StatFrom(trades, underlying_prices.value, Len(strikes))

\* min(self._strike_prices), max(self._strike_prices) of a non-empty list
RECURSIVE MinStrikeFrom(_, _)
MinStrikeFrom(strikes, i) ==
    IF i = Len(strikes) THEN strikes[i]
    ELSE LET rest == MinStrikeFrom(strikes, i + 1)
         IN IF rest < strikes[i] THEN rest ELSE strikes[i]

RECURSIVE MaxStrikeFrom(_, _)
MaxStrikeFrom(strikes, i) ==
    IF i = Len(strikes) THEN strikes[i]
    ELSE LET rest == MaxStrikeFrom(strikes, i + 1)
         IN IF rest > strikes[i] THEN rest ELSE strikes[i]

NoRange == <<0, 0>>

\* what _get_price_range() returns or raises on the list strikes
GetPriceRange(strikes) ==
    IF Len(strikes) = 0
      THEN [raised |-> Raise("ValueError", 76), value |-> NoRange]
      ELSE LET price_range_min == RatMul(Int2Rat(MinStrikeFrom(strikes, 1)),
                                         RatSub(Int2Rat(1), PRICE_RANGE_PCT))
               price_range_max == RatMul(Int2Rat(MaxStrikeFrom(strikes, 1)),
                                         RatAdd(Int2Rat(1), PRICE_RANGE_PCT))
           IN [raised |-> NoRaise,
               value |-> <<IntTrunc(price_range_min), IntTrunc(price_range_max)>>]

\* ----------------------------------------------------------- state machine
NotCalledStat == [called |-> FALSE, raised |-> NoRaise, value |-> NoStat]
NotCalledRange == [called |-> FALSE, raised |-> NoRaise, value |-> NoRange]

\* Optionstat(contract_size): both lists empty
Init ==
    /\ contract_size \in ContractSizes
    /\ option_trades = <<>>
    /\ strike_prices = <<>>
    /\ last_stat = NotCalledStat
    /\ last_range = NotCalledRange

\* add_trade(strike, premium, position, option_type): no argument is checked
add_trade(strike, premium, position, option_type) ==
    /\ Len(option_trades) < MaxLegs
    /\ option_trades' = Append(option_trades,
                               Leg(strike, premium, position, option_type, contract_size))
    /\ strike_prices' = Append(strike_prices, strike)
    /\ last_stat' = NotCalledStat
    /\ last_range' = NotCalledRange
    /\ UNCHANGED contract_size

AddTrade ==
    \E strike \in Strikes, premium \in Premiums, position \in Positions,
       option_type \in OptionTypes :
        add_trade(strike, premium, position, option_type)

\* stat(): sorts self._strike_prices in place, then returns or raises
stat ==
    /\ strike_prices' = StrikesAfterStat(strike_prices)
    /\ last_stat' = LET r == Stat(option_trades, strike_prices)
                    IN [called |-> TRUE, raised |-> r.raised, value |-> r.value]
    /\ UNCHANGED <<option_trades, contract_size, last_range>>

\* _get_price_range(): reads self._strike_prices
_get_price_range ==
    /\ last_range' = LET r == GetPriceRange(strike_prices)
                     IN [called |-> TRUE, raised |-> r.raised, value |-> r.value]
    /\ UNCHANGED <<option_trades, strike_prices, contract_size, last_stat>>

Next == AddTrade \/ stat \/ _get_price_range

Spec == Init /\ [][Next]_vars

\* ------------------------------------------------- vocabulary of the claims
\* the integer prices 0 .. (highest strike of the inputs) + TailProbe; the
\* payoff is linear between consecutive integers because every strike is one
HighestInputStrike == CHOOSE k \in Strikes : \A j \in Strikes : j <= k
GridTop == HighestInputStrike + TailProbe
PriceGrid == 0..GridTop

LegSet == {option_trades[i] : i \in 1..Len(option_trades)}
LegStrikes == {l.strike : l \in LegSet}
HighestStrike == CHOOSE k \in LegStrikes : \A j \in LegStrikes : j <= k
LowestStrike == CHOOSE k \in LegStrikes : \A j \in LegStrikes : k <= j

\* the aggregate payoff of the current legs, defined when no leg has position 0
Payoff(p) == TotalProfit(option_trades, p)
\* the payoff at the grid prices 0, 1, .., GridTop as a tuple: PayoffTable[p + 1]
\* is the payoff at price p
PayoffTable == <<Payoff(Zero)>> \o [p \in 1..GridTop |-> Payoff(Int2Rat(p))]
Sign(x) == IF x.n > 0 THEN 1 ELSE IF x.n < 0 THEN -1 ELSE 0
RatLe(a, b) == ~RatLt(b, a)

StatReturned == last_stat.called /\ last_stat.raised = NoRaise
StatRaised == last_stat.called /\ last_stat.raised # NoRaise
RangeReturned == last_range.called /\ last_range.raised = NoRaise
BreakEvenSet == {last_stat.value.break_even[j] : j \in 1..Len(last_stat.value.break_even)}

\* C1: whenever stat() returns, every price >= 0 at which the aggregate payoff
\* crosses zero is in break_even, crossings above the highest strike included:
\* a grid price where the payoff is 0 between two values of opposite sign is
\* reported, and so is a root strictly between two consecutive grid prices of
\* opposite sign.
C1_EveryCrossingReported ==
    StatReturned =>
        LET table == PayoffTable
            payoff == [p \in PriceGrid |-> table[p + 1]]
        IN /\ \A p \in 1..(GridTop - 1) :
                (payoff[p] = Zero /\ Sign(payoff[p - 1]) * Sign(payoff[p + 1]) = -1)
                    => Int2Rat(p) \in BreakEvenSet
           /\ \A p \in 0..(GridTop - 1) :
                Sign(payoff[p]) * Sign(payoff[p + 1]) = -1
                    => \E r \in BreakEvenSet : RatLt(Int2Rat(p), r) /\ RatLt(r, Int2Rat(p + 1))

\* C2: whenever stat() returns on a non-empty strategy, max_profit is +inf
\* exactly when the payoff at k_n + 1 exceeds the payoff at the highest strike
\* k_n (and the payoff then keeps rising over the whole tail), and otherwise it
\* is the greatest payoff over all prices >= 0; symmetrically for max_loss,
\* -inf and the least payoff.
C2_Extrema ==
    (StatReturned /\ Len(option_trades) > 0) =>
        LET table == PayoffTable
            payoff == [p \in PriceGrid |-> table[p + 1]]
            kn == HighestStrike
            v == last_stat.value
        IN /\ (v.max_profit = PosInf) <=> RatLt(payoff[kn], payoff[kn + 1])
           /\ (v.max_profit = PosInf) =>
                \A p \in kn..(GridTop - 1) : RatLt(payoff[p], payoff[p + 1])
           /\ (v.max_profit # PosInf) =>
                /\ v.max_profit.inf = 0
                /\ \E p \in PriceGrid : payoff[p] = v.max_profit.val
                /\ \A p \in PriceGrid : RatLe(payoff[p], v.max_profit.val)
           /\ (v.max_loss = NegInf) <=> RatLt(payoff[kn + 1], payoff[kn])
           /\ (v.max_loss = NegInf) =>
                \A p \in kn..(GridTop - 1) : RatLt(payoff[p + 1], payoff[p])
           /\ (v.max_loss # NegInf) =>
                /\ v.max_loss.inf = 0
                /\ \E p \in PriceGrid : payoff[p] = v.max_loss.val
                /\ \A p \in PriceGrid : RatLe(v.max_loss.val, payoff[p])

\* a bounded gain and a bounded loss, both taken at a strike: a long call at
\* one strike with a short call at a higher one
C2_Witness ==
    /\ StatReturned
    /\ Len(option_trades) = 2
    /\ last_stat.value.max_profit.inf = 0
    /\ last_stat.value.max_loss.inf = 0
    /\ RatLt(Zero, last_stat.value.max_profit.val)
    /\ RatLt(last_stat.value.max_loss.val, Zero)
    /\ option_trades[1].option_type = "Call" /\ option_trades[1].position = 1
    /\ option_trades[2].option_type = "Call" /\ option_trades[2].position = -1
    /\ option_trades[1].strike < option_trades[2].strike

\* the anchor prices of the distinct strikes of the legs, ascending
RECURSIVE SortedSeqOf(_)
SortedSeqOf(S) ==
    IF S = {} THEN <<>>
    ELSE LET m == CHOOSE k \in S : \A j \in S : k <= j
         IN <<m>> \o SortedSeqOf(S \ {m})

DistinctAnchors == <<0>> \o SortedSeqOf(LegStrikes) \o <<HighestStrike + 1>>

C4_NoZeroPosition ==
    /\ \A l \in LegSet : l.position # 0
    /\ last_stat.raised # Raise("ZeroDivisionError", 41)

\* C5: a stat() over a strategy holding a leg whose option type is neither Call
\* nor Put raises instead of returning statistics.
C5_UnknownTypeRaises ==
    (last_stat.called /\ \E l \in LegSet : l.option_type \notin {"Call", "Put"})
        => last_stat.raised # NoRaise

\* C6: when no leg has position 0 and the aggregate payoff is exactly 0 at an
\* anchor price and differs from the payoff at an adjacent anchor, stat()
\* returns a result (it raises nothing).
C6_ZeroAnchorReturns ==
    (/\ last_stat.called
     /\ Len(option_trades) > 0
     /\ \A l \in LegSet : l.position # 0
     /\ \E i \in 2..Len(DistinctAnchors) :
          LET a == Payoff(Int2Rat(DistinctAnchors[i - 1]))
              b == Payoff(Int2Rat(DistinctAnchors[i]))
          IN a # b /\ (a = Zero \/ b = Zero))
        => last_stat.raised = NoRaise

\* a fresh strategy given the current legs in the order perm
FreshStat(perm) ==
    LET legs == [i \in 1..Len(option_trades) |-> option_trades[perm[i]]]
    IN Stat(legs, [i \in 1..Len(legs) |-> legs[i].strike])

\* C7: whenever stat() has been called, from whatever state earlier add_trade
\* and stat() calls have left, its outcome (the statistics or the exception) is
\* the outcome of stat() on a fresh strategy given the same legs in any order.
C7_StatOfLegsOnly ==
    last_stat.called =>
        \A perm \in Permutations(1..Len(option_trades)) :
            LET fresh == FreshStat(perm)
            IN last_stat.raised = fresh.raised /\ last_stat.value = fresh.value

\* stat() has returned roots and has reordered the recorded strikes
C7_Witness ==
    /\ StatReturned
    /\ Len(option_trades) = 2
    /\ option_trades[1].strike > option_trades[2].strike
    /\ strike_prices # [i \in 1..Len(option_trades) |-> option_trades[i].strike]
    /\ Len(last_stat.value.break_even) > 0

CeilDiv(n, d) == -((-n) \div d)

\* C9 as stated: _get_price_range() returns
\* (floor(minStrike * 9 / 10), ceil(maxStrike * 11 / 10)).
C9_FloorCeil ==
    RangeReturned =>
        last_range.value = <<(LowestStrike * 9) \div 10, CeilDiv(HighestStrike * 11, 10)>>

\* C9 amended: _get_price_range() returns (lo, hi) with lo the greatest integer
\* <= 0.9 * minStrike and hi the greatest integer <= 1.1 * maxStrike: both
\* bounds are rounded down.
C9_BothTruncated ==
    RangeReturned =>
        LET lo == last_range.value[1]
            hi == last_range.value[2]
        IN /\ 10 * lo <= 9 * LowestStrike /\ 9 * LowestStrike < 10 * (lo + 1)
           /\ 10 * hi <= 11 * HighestStrike /\ 11 * HighestStrike < 10 * (hi + 1)

\* the upper bound lies strictly below 1.1 * maxStrike
C9_Witness ==
    /\ RangeReturned
    /\ Len(option_trades) = 2
    /\ LowestStrike # HighestStrike
    /\ 10 * last_range.value[2] < 11 * HighestStrike

\* C10: whatever the strikes of the legs, stat() returns or raises what the
\* statistics engine does on the anchors built from the sorted distinct
\* strikes, with the same max_profit, max_loss and break_even, and it never
\* divides by a zero difference of anchor prices.
C10_AsIfDeduplicated ==
    (last_stat.called /\ Len(option_trades) > 0) =>
        LET r == StatFrom(option_trades, DistinctAnchors, Len(strike_prices))
        IN /\ last_stat.raised = r.raised
           /\ last_stat.value.max_profit = r.value.max_profit
           /\ last_stat.value.max_loss = r.value.max_loss
           /\ last_stat.value.break_even = r.value.break_even
           /\ last_stat.raised # Raise("ZeroDivisionError", 148)

\* two legs at one strike, and a root found
C10_Witness ==
    /\ StatReturned
    /\ Len(option_trades) = 2
    /\ Cardinality(LegStrikes) = 1
    /\ Len(last_stat.value.break_even) > 0

====
